---- MODULE Spec2Model ----
(***************************************************************************)
(* State-machine model of PVCollection.js: one Collection, the Records    *)
(* (Model instances) it owns, and the process-wide uid counter.            *)
(*                                                                         *)
(* JavaScript values are encoded as integers and strings:                  *)
(*   attribute values   1..MaxKey / 1..MaxName, 0 is the number 0          *)
(*   ArrayOf(n) (10+n)  the array [1, ..., n] as an attribute value        *)
(*   Absent (-1)        a property that is missing (reads as undefined)    *)
(*   "true" / "false" / "undefined" for the boolean-valued fields          *)
(***************************************************************************)
EXTENDS Integers, Sequences, FiniteSets, TLC

\* ---- bounds of the model ------------------------------------------------
MaxKey == 2
MaxName == 2
MaxItems == 2
MaxSnap == 2
MaxAdd == 1
MaxUid == 1
MaxCalls == 3
MaxArray == 2

\* ---- encoding of JavaScript values --------------------------------------
Absent == 0 - 1
JTrue == "true"
JFalse == "false"
JUndefined == "undefined"
ArrayOf(n) == 10 + n
IsArray(v) == v > 10
ArrayLen(v) == v - 10

VARIABLES
    items,              \* Collection.items: the Records, in array order
    length,             \* Collection.length
    _dirty,             \* Collection._dirty
    _isDirty,           \* Collection._isDirty, the field isDirty() reads
    _isSorted,          \* Collection._isSorted
    _hasBeenRendered,   \* Collection._hasBeenRendered
    firstSet,           \* Collection.firstSet
    sortComparator,     \* Collection.sortComparator: "default" or "asc"
    _events,            \* Collection._events: event name -> handlers, in order
    uidNext,            \* the closure variable id of initIncrementId
    op,                 \* the public operation that ran last
    ret,                \* what it returned (or the exception it raised)
    addedItems,         \* its added list (set, add)
    removedItems,       \* its removed list (set, remove)
    changedItems,       \* its changed list (set, Record.set)
    fired,              \* the events it triggered on its object, in order
    log,                \* those events and the handlers they invoked, in order
    calls               \* the number of public operations called so far

collVars == <<items, length, _dirty, _isDirty, _isSorted, _hasBeenRendered,
              firstSet, sortComparator, _events, uidNext>>
obsVars == <<op, ret, addedItems, removedItems, changedItems, fired, log, calls>>
vars == <<collVars, obsVars>>

\* ---- inputs -------------------------------------------------------------
\* A plain attribute mapping handed to add/set: a name, and an id that may
\* be missing. id 0 stands for the keys the Model constructor treats as empty.
Elements == [id : {Absent} \cup 0..MaxKey, name : 1..MaxName]

\* The mappings handed to Record.set on a member: a new name, a number or
\* an array
Patches == [id : {Absent}, name : 1..MaxName \cup {ArrayOf(n) : n \in 1..MaxArray}]

SeqsUpTo(S, n) == UNION {[1..k -> S] : k \in 0..n}

Range(s) == {s[i] : i \in 1..Len(s)}

\* Array.prototype.indexOf: first position holding v, -1 when there is none
\* (0-based in the source, 1-based here with 0 for "not found").
IndexOf(s, v) ==
    IF \E i \in 1..Len(s) : s[i] = v
    THEN CHOOSE i \in 1..Len(s) : s[i] = v /\ \A j \in 1..(i - 1) : s[j] # v
    ELSE 0

\* Array.prototype.splice(idx, 1) with idx = indexOf(...): a result of -1
\* counts from the end, so the last element is the one taken out.
SpliceIndex(s, idx) == IF idx = 0 THEN Len(s) ELSE idx

RemoveAt(s, i) == [j \in 1..(Len(s) - 1) |-> IF j < i THEN s[j] ELSE s[j + 1]]

Keys(s) == [i \in 1..Len(s) |-> s[i].id]

\* ---- EqualityOracle -----------------------------------------------------
\* eq on the primitive values of the model: identical values are equal,
\* undefined equals only undefined.
isEqual(a, b) == a = b

\* ---- Record (Model) -----------------------------------------------------
NoChanges == [id |-> Absent, name |-> Absent, undefined |-> Absent, debug |-> Absent]

\* new Model(opt, attributes): a key that is missing or falsy is replaced by
\* uid(); u is the value uid() would return.
NeedsUid(e) == e.id = Absent \/ e.id = 0

\* moment(): the time of the running call; calls are numbered from 1
Now == calls + 1

Model(e, u) ==
    [id |-> IF NeedsUid(e) THEN u ELSE e.id,
     name |-> e.name,
     debug |-> FALSE,
     _dirty |-> FALSE,
     changedAttributes |-> NoChanges,
     modified |-> Now]

\* Model.prototype.clean
ModelClean(r) == [r EXCEPT !._dirty = FALSE, !.changedAttributes = NoChanges]

\* $.extend(true, {}, attributes, key) for one attribute: src is the value
\* the attributes hold and copy the value of key. An array is merged into
\* an array index by index, so the elements of src beyond the length of
\* copy stay; any other value replaces src.
DeepExtend(src, copy) ==
    IF IsArray(src) /\ IsArray(copy)
    THEN ArrayOf(IF ArrayLen(src) > ArrayLen(copy) THEN ArrayLen(src) ELSE ArrayLen(copy))
    ELSE copy

\* Model.prototype.set(key, ...) with key a mapping: every own property of
\* key that differs from the attribute is written into changedAttributes
\* (entries of earlier calls stay), the attributes are extended by key,
\* modified is set to the current time when changedAttributes is not empty,
\* and the Record becomes dirty.
ModelSetMapping(r, e) ==
    LET changes ==
            [id |-> IF e.id # Absent /\ ~isEqual(r.id, e.id)
                    THEN e.id ELSE r.changedAttributes.id,
             name |-> IF e.name # Absent /\ ~isEqual(r.name, e.name)
                      THEN e.name ELSE r.changedAttributes.name,
             undefined |-> r.changedAttributes.undefined,
             debug |-> r.changedAttributes.debug]
    IN  [id |-> IF e.id # Absent THEN DeepExtend(r.id, e.id) ELSE r.id,
         name |-> IF e.name # Absent THEN DeepExtend(r.name, e.name) ELSE r.name,
         debug |-> r.debug,
         _dirty |-> TRUE,
         changedAttributes |-> changes,
         modified |-> IF changes # NoChanges THEN Now ELSE r.modified]

\* Model.prototype.set(undefined, false, true): the key/value branch runs
\* with key undefined, value false and internal true, so the attributes stay
\* and changedAttributes gains the entry "undefined" (false, written 0).
ModelSetUndefined(r) ==
    [r EXCEPT !._dirty = TRUE, !.changedAttributes.undefined = 0, !.modified = Now]

\* Model.prototype.set(key, value) with key the name of an attribute: the
\* value is written to the attribute and to changedAttributes without being
\* compared.
ModelSetKeyValue(r, key, value) ==
    [id |-> IF key = "id" THEN value ELSE r.id,
     name |-> IF key = "name" THEN value ELSE r.name,
     debug |-> r.debug,
     _dirty |-> TRUE,
     changedAttributes |->
        [id |-> IF key = "id" THEN value ELSE r.changedAttributes.id,
         name |-> IF key = "name" THEN value ELSE r.changedAttributes.name,
         undefined |-> r.changedAttributes.undefined,
         debug |-> r.changedAttributes.debug],
     modified |-> Now]

\* Model.prototype.set({debug: true}, true), the internal form: the entry is
\* compared with the Record's own property and noted in changedAttributes
\* (true, written 1); then the local variable model is bound to a fresh deep
\* copy of the Record extended by the mapping, and everything after that
\* (modified, _dirty, the events, the value returned) happens to the copy.
\* The outcome [record, returned].
ModelSetInternal(r) ==
    LET noted == [r EXCEPT !.changedAttributes.debug =
                               IF ~isEqual(r.debug, TRUE) THEN 1 ELSE @]
    IN  [record |-> noted,
         returned |-> [noted EXCEPT !.debug = TRUE, !._dirty = TRUE, !.modified = Now]]

\* Model.prototype.get(keys) with keys = Object.keys(attributes)
ModelGet(r) == [id |-> r.id, name |-> r.name]

HasChanges(r) == r.changedAttributes # NoChanges

\* Model.prototype.toJSON: the attributes, a missing name staying missing
ModelToJSON(r) == [id |-> r.id, name |-> r.name]

\* ---- comparators and Array.prototype.sort -------------------------------
\* The default comparator of the constructor, and one custom comparator a
\* caller may install (ascending by key).
Compare(cmp, a, b) ==
    IF cmp = "default"
    THEN (IF a.id < b.id THEN 1 ELSE 0 - 1)
    ELSE a.id - b.id

Arrangements(s) ==
    {[i \in 1..Len(s) |-> s[f[i]]] :
        f \in {g \in [1..Len(s) -> 1..Len(s)] :
                 \A i, j \in 1..Len(s) : g[i] = g[j] => i = j}}

Ordered(s, cmp) == \A i \in 1..(Len(s) - 1) : Compare(cmp, s[i], s[i + 1]) <= 0

\* A sort pass that leaves the array in the order it found it
SortOutcomesUnsorted(s, cmp) == {s}

\* The arrays items.sort(cmp) can leave: the engine chooses the order of
\* elements the comparator does not separate.
SortOutcomes(s, cmp) == {p \in Arrangements(s) : Ordered(p, cmp)}

\* ---- Collection: the operations on a collection value -------------------
\* A collection value holds the fields an operation reads and writes, and
\* the events triggered so far by the running operation.
Here ==
    [items |-> items, length |-> length, _dirty |-> _dirty,
     _isSorted |-> _isSorted, _hasBeenRendered |-> _hasBeenRendered,
     firstSet |-> firstSet, uidNext |-> uidNext, fired |-> <<>>, log |-> <<>>]

\* The entries of the added/removed/changed lists: a reference to a Record,
\* or an array of such references (what Array.prototype.splice returns). A
\* reference is written as the attributes of the Record it points to.
RecordEntry(r) == [isArray |-> FALSE, elems |-> <<ModelToJSON(r)>>]
ArrayEntry(rs) == [isArray |-> TRUE, elems |-> [i \in 1..Len(rs) |-> ModelToJSON(rs[i])]]

\* The handlers _initialize registers for the events no caller's handler
\* of the model listens to; the handlers of 'clear' and 'error' are in
\* _events.
DefaultHandlers(name) ==
    CASE name = "sort" -> <<"onSort">>
      [] name = "beforeRender" -> <<"onBeforeRender">>
      [] name = "render" -> <<"onRender">>
      [] name = "change" -> <<"onChange">>
      [] name = "dirty" -> <<"onDirty">>
      [] OTHER -> <<>>

\* trigger(name): the event is noted and, for the events whose registered
\* handlers only log, so are the handlers fireWith invokes.
Trigger(c, name) ==
    [c EXCEPT !.fired = Append(@, name),
              !.log = @ \o <<name>> \o DefaultHandlers(name)]

\* Collection.prototype.sort(options, fn) with the comparator resolved
CollSort(c, cmp, silent) ==
    {[(IF silent THEN c ELSE Trigger(c, "sort"))
         EXCEPT !.items = p, !._isSorted = JTrue] : p \in SortOutcomes(c.items, cmp)}

\* The Records add constructs from elems: uid() is called once for every
\* element without a usable key, in order.
UidsBefore(elems, i) == Cardinality({j \in 1..(i - 1) : NeedsUid(elems[j])})

NewModels(elems, u) ==
    [i \in 1..Len(elems) |-> Model(elems[i], u + UidsBefore(elems, i))]

UidsUsed(elems) == UidsBefore(elems, Len(elems) + 1)

\* Collection.prototype.add(items, options): the outcomes [c, added]
CollAdd(c, elems, cmp, noSort, silent) ==
    LET new == NewModels(elems, c.uidNext)
        c1 == [c EXCEPT !.items = @ \o new,
                        !.uidNext = @ + UidsUsed(elems),
                        !._hasBeenRendered = JFalse,
                        !.length = Len(c.items) + Len(new)]
        sorted == IF noSort THEN {c1} ELSE CollSort(c1, cmp, FALSE)
        Finish(c2) ==
            LET c3 == IF Len(new) > 0
                      THEN Trigger([c2 EXCEPT !._dirty = JTrue], "dirty")
                      ELSE c2
                c4 == IF Len(new) > 0 /\ ~silent THEN Trigger(c3, "change") ELSE c3
            IN  [c4 EXCEPT !.firstSet = JFalse]
    IN  {[c |-> Finish(c2), added |-> [i \in 1..Len(new) |-> RecordEntry(new[i])]] :
            c2 \in sorted}

\* Collection.prototype.remove(_id, options) once _id is resolved to the key
\* id: the outcome [c, removedModel], removedModel being the spliced array.
CollRemove(c, id, silent) ==
    LET idx == IndexOf(Keys(c.items), id)
        at == SpliceIndex(c.items, idx)
        removedModel == IF Len(c.items) = 0 THEN <<>> ELSE <<c.items[at]>>
        rest == IF Len(c.items) = 0 THEN <<>> ELSE RemoveAt(c.items, at)
        c1 == Trigger([c EXCEPT !.items = rest,
                                !.length = Len(rest),
                                !._hasBeenRendered = JFalse,
                                !._dirty = JTrue], "dirty")
    IN  [c |-> IF silent THEN c1 ELSE Trigger(c1, "change"),
         removedModel |-> removedModel]

\* ---- Collection.prototype.set -------------------------------------------
\* Whether snapshot holds an element whose key equals the Record's key
Matched(r, snapshot) == IndexOf(Keys(snapshot), r.id) # 0

\* toBeRemoved.forEach: every Record marked for removal is handed to
\* remove(item, {silent: true, returnItem: true}) and the value it returns
\* is pushed on the removed list.
\* The silent option set passes to remove, and one that leaves it out
RemoveOptionsNotSilent == FALSE

RemoveOptionsSilent == TRUE

RECURSIVE RemovePhase(_, _, _)
RemovePhase(c, toBeRemoved, removed) ==
    IF toBeRemoved = <<>>
    THEN [c |-> c, removed |-> removed]
    ELSE LET r == CollRemove(c, Head(toBeRemoved).id, RemoveOptionsSilent)
         IN  RemovePhase(r.c, Tail(toBeRemoved),
                         Append(removed, ArrayEntry(r.removedModel)))

\* toBeChanged.forEach: the Records marked for change are the ones left in
\* items after the remove phase, in the same order (every Record of an
\* unmatched key was marked, and each remove took one of that key out).
\* Each takes its element out of the working array by splice(indexOf) and
\* applies it with Record.set; the one at position i is next.
RECURSIVE ChangePhase(_, _, _, _)
ChangePhase(c, i, work, changed) ==
    IF i > Len(c.items)
    THEN [c |-> c, work |-> work, changed |-> changed]
    ELSE LET oldItem == c.items[i]
             at == SpliceIndex(work, IndexOf(Keys(work), oldItem.id))
             changedItem == IF Len(work) = 0
                            THEN ModelSetUndefined(oldItem)
                            ELSE ModelSetMapping(oldItem, work[at])
             rest == IF Len(work) = 0 THEN work ELSE RemoveAt(work, at)
             hit == HasChanges(changedItem)
             c1 == [c EXCEPT !.items[i] = changedItem,
                             !._isSorted = IF hit THEN JFalse ELSE @]
         IN  ChangePhase(c1, i + 1, rest,
                         IF hit THEN Append(changed, RecordEntry(changedItem))
                         ELSE changed)

\* The noSort option set passes to add, and one that leaves it out
AddOptionsSorting == FALSE

AddOptionsNoSort == TRUE

\* Collection.prototype.set(items, options) for an array: the outcomes
\* [c, added, removed, changed, newItems], newItems being the caller's array
\* as set leaves it: the change phase splices the array it was handed.
CollSet(c, snapshot, cmp, silent) ==
    LET toBeRemoved == SelectSeq(c.items, LAMBDA r : ~Matched(r, snapshot))
        c0 == [c EXCEPT !._isSorted = IF toBeRemoved # <<>> THEN JFalse ELSE @]
        rp == RemovePhase(c0, toBeRemoved, <<>>)
        cp == ChangePhase(rp.c, 1, snapshot, <<>>)
        adds == IF Len(cp.work) > 0
                THEN CollAdd([cp.c EXCEPT !._isSorted = JFalse], cp.work, cmp,
                             AddOptionsNoSort, TRUE)
                ELSE {[c |-> cp.c, added |-> <<>>]}
        Finish(c2, added) ==
            LET c3 == [c2 EXCEPT !.length = Len(c2.items)]
                any == Len(added) > 0 \/ Len(rp.removed) > 0 \/ Len(cp.changed) > 0
                c4 == IF any
                      THEN Trigger([c3 EXCEPT !._hasBeenRendered = JFalse,
                                              !._dirty = JTrue], "dirty")
                      ELSE c3
                c5 == IF any /\ ~silent THEN Trigger(c4, "change") ELSE c4
            IN  [c5 EXCEPT !.firstSet = JFalse]
    IN  UNION {{[c |-> Finish(c2, a.added), added |-> a.added,
                 removed |-> rp.removed, changed |-> cp.changed,
                 newItems |-> cp.work] :
                    c2 \in CollSort(a.c, cmp, FALSE)} : a \in adds}

\* ---- the public operations ----------------------------------------------
\* The fields of a collection value written back to the state
Store(c) ==
    /\ items' = c.items
    /\ length' = c.length
    /\ _dirty' = c._dirty
    /\ _isSorted' = c._isSorted
    /\ _hasBeenRendered' = c._hasBeenRendered
    /\ firstSet' = c.firstSet
    /\ uidNext' = c.uidNext
    /\ fired' = c.fired
    /\ log' = c.log

Fits(c) == Len(c.items) <= MaxItems /\ c.uidNext <= MaxUid + 1

\* The model follows a caller for MaxCalls operations
CanCall == calls < MaxCalls

\* What a call leaves for its caller: its name, the value it returns and
\* the three lists it reports.
Report(name, r, added, removed, changed) ==
    /\ calls' = calls + 1
    /\ op' = name
    /\ ret' = r
    /\ addedItems' = added
    /\ removedItems' = removed
    /\ changedItems' = changed

\* The events an operation that changes no item triggers, one after the
\* other, with the handlers they invoke
RECURSIVE LogOf(_)
LogOf(events) ==
    IF events = <<>> THEN <<>>
    ELSE <<Head(events)>> \o DefaultHandlers(Head(events)) \o LogOf(Tail(events))

Fired(events) == fired' = events /\ log' = LogOf(events)

\* trigger('error', ...): the handler registered by _initialize, onError,
\* calls this.error, which no code defines, so the call raises a TypeError.
Registered(name, h) == \E i \in 1..Len(_events[name]) : _events[name][i] = h

ErrorResult(sentinel) == IF Registered("error", "onError") THEN "TypeError" ELSE sentinel

\* fireWith for 'error': the registered handlers run in order; onError
\* raises, and the handlers after it do not run.
FireError(handlers) ==
    IF IndexOf(handlers, "onError") = 0
    THEN handlers
    ELSE SubSeq(handlers, 1, IndexOf(handlers, "onError"))

\* An operation that only reports an anomaly
Fail(name, sentinel) ==
    /\ CanCall
    /\ Report(name, ErrorResult(sentinel), <<>>, <<>>, <<>>)
    /\ fired' = <<"error">>
    /\ log' = <<"error">> \o FireError(_events.error)
    /\ UNCHANGED collVars

\* new Collection(opt, model) with opt.template set and no opt.functions
Init ==
    /\ items = <<>>
    /\ length = 0
    /\ _dirty = JFalse
    /\ _isDirty = JUndefined
    /\ _isSorted = JTrue
    /\ _hasBeenRendered = JFalse
    /\ firstSet = JTrue
    /\ sortComparator = "default"
    /\ _events = [clear |-> <<"onClear">>, error |-> <<"onError">>]
    /\ uidNext = 0
    /\ op = "new"
    /\ ret = "this"
    /\ addedItems = <<>> /\ removedItems = <<>> /\ changedItems = <<>>
    /\ fired = <<"initialized">>
    /\ log = <<"initialized">>
    /\ calls = 0

\* collection.set(snapshot, {silent: silent})
Set(snapshot, silent) ==
    /\ CanCall
    /\ \E out \in CollSet(Here, snapshot, sortComparator, silent) :
        /\ Fits(out.c)
        /\ Store(out.c)
        /\ Report("set", "this", out.added, out.removed, out.changed)
        /\ UNCHANGED <<_isDirty, sortComparator, _events>>

\* collection.set(x) with x missing, null, an object or a string
SetNotArray == Fail("set", "false")

\* collection.add(elems, {noSort: noSort, silent: silent})
Add(elems, noSort, silent) ==
    /\ CanCall
    /\ \E out \in CollAdd(Here, elems, sortComparator, noSort, silent) :
        /\ Fits(out.c)
        /\ Store(out.c)
        /\ Report("add", "this", out.added, <<>>, <<>>)
        /\ UNCHANGED <<_isDirty, sortComparator, _events>>

\* remove once _id is resolved to the key id: the change payload carries
\* [removedModel], removedModel being the spliced array.
Removed(id, silent) ==
    /\ CanCall
    /\ LET r == CollRemove(Here, id, silent)
       IN  /\ Store(r.c)
           /\ Report("remove", "this", <<>>, <<ArrayEntry(r.removedModel)>>, <<>>)
           /\ UNCHANGED <<_isDirty, sortComparator, _events>>

\* collection.remove(n, {silent: silent}) with n a number or a numeric string
RemoveNumber(n, silent) == Removed(n, silent)

\* collection.remove(record, {silent: silent}), record the Record at position i
RemoveRecord(i, silent) ==
    /\ CanCall
    /\ i \in 1..Len(items)
    /\ Removed(items[i].id, silent)

\* collection.remove(x) with x neither parseable nor a Record
RemoveUnrecognized == Fail("remove", "false")

\* collection.sort({silent: silent}, fn); fn = "none" stands for no comparator
Sort(silent, fn) ==
    /\ CanCall
    /\ \E c \in CollSort(Here, IF fn = "none" THEN sortComparator ELSE fn, silent) :
        /\ Store(c)
        /\ Report("sort", "this", <<>>, <<>>, <<>>)
        /\ UNCHANGED <<_isDirty, sortComparator, _events>>

\* collection.setComparator(fn) with fn a function
SetComparator(fn) ==
    /\ CanCall
    /\ sortComparator' = fn
    /\ Report("setComparator", "this", <<>>, <<>>, <<>>)
    /\ Fired(<<>>)
    /\ UNCHANGED <<items, length, _dirty, _isDirty, _isSorted, _hasBeenRendered,
                   firstSet, _events, uidNext>>

\* collection.setComparator(x) with x not a function
SetComparatorNotFunction == Fail("setComparator", "this")

\* collection.clean(deep)
Clean(deep) ==
    /\ CanCall
    /\ _dirty' = JFalse
    /\ items' = IF deep THEN [i \in 1..Len(items) |-> ModelClean(items[i])] ELSE items
    /\ Report(IF deep THEN "clean(true)" ELSE "clean", "undefined", <<>>, <<>>, <<>>)
    /\ Fired(<<>>)
    /\ UNCHANGED <<length, _isDirty, _isSorted, _hasBeenRendered, firstSet,
                   sortComparator, _events, uidNext>>

\* The element a caller's own 'clear' handler adds to the collection
UserClearElement == [id |-> 1, name |-> 1]

\* fireWith called while the same list is firing: jQuery.Callbacks queues
\* the call and fires the list again once the running firing is over; a
\* list that dropped such a call would give FALSE.
FireWithWhileFiringDropped == FALSE

FireWithWhileFiring == TRUE

\* One handler of 'clear', invoked with a payload that says whether this is
\* the firing a handler asked for (again). onClear is the handler of
\* _initialize. userClear is a caller's handler that calls
\* this.add(UserClearElement). userReclear is a caller's handler that calls
\* this.trigger('clear', {again: true}) unless evt.again is set. The outcomes
\* [c, queued]: queued says that a firing was asked for and queued.
ClearHandler(c, h, cmp, again) ==
    LET c0 == [c EXCEPT !.log = Append(@, h)]
    IN  CASE h = "onClear" -> {[c |-> [c0 EXCEPT !.length = 0], queued |-> FALSE]}
          [] h = "userClear" ->
                {[c |-> o.c, queued |-> FALSE] :
                    o \in CollAdd(c0, <<UserClearElement>>, cmp, FALSE, FALSE)}
          [] OTHER ->
                IF again THEN {[c |-> c0, queued |-> FALSE]}
                ELSE {[c |-> Trigger(c0, "clear"), queued |-> FireWithWhileFiring]}

\* One firing of the list: the handlers run in order
RECURSIVE FireList(_, _, _, _, _)
FireList(c, handlers, cmp, again, queued) ==
    IF handlers = <<>>
    THEN {[c |-> c, queued |-> queued]}
    ELSE UNION {FireList(r.c, Tail(handlers), cmp, again, queued \/ r.queued) :
                    r \in ClearHandler(c, Head(handlers), cmp, again)}

\* fireWith for 'clear': the list fires, and fires once more when a handler
\* asked for it meanwhile.
FireClear(c, handlers, cmp) ==
    UNION {IF r.queued
           THEN {r2.c : r2 \in FireList(r.c, handlers, cmp, TRUE, FALSE)}
           ELSE {r.c} : r \in FireList(c, handlers, cmp, FALSE, FALSE)}

\* Collection.prototype.clear on a collection value
CollClear(c, handlers, cmp) ==
    {[c1 EXCEPT !.items = <<>>] : c1 \in FireClear(Trigger(c, "clear"), handlers, cmp)}

\* collection.clear()
Clear ==
    /\ CanCall
    /\ \E c \in CollClear(Here, _events.clear, sortComparator) :
        /\ Store(c)
        /\ Report("clear", "this", <<>>, <<>>, <<>>)
        /\ UNCHANGED <<_isDirty, sortComparator, _events>>

\* collection.render({force: force})
Render(force) ==
    /\ CanCall
    /\ _hasBeenRendered' = JTrue
    /\ Fired(IF _hasBeenRendered # JTrue \/ force
             THEN <<"beforeRender", "render">> ELSE <<"render">>)
    /\ Report("render", "templateRender", <<>>, <<>>, <<>>)
    /\ UNCHANGED <<items, length, _dirty, _isDirty, _isSorted, firstSet,
                   sortComparator, _events, uidNext>>

\* collection.fetch(url, options): the local fetch is $.Deferred itself, the
\* factory function, not a deferred it made; it has no property done, so
\* fetch.done(...) raises a TypeError before any callback is attached.
Fetch ==
    /\ CanCall
    /\ Report("fetch", "TypeError", <<>>, <<>>, <<>>)
    /\ Fired(<<>>)
    /\ UNCHANGED collVars

\* collection.save(options): this.get() returns items; saveObject.deferred
\* is $.Deferred itself, so saveObject.deferred.always(...) raises a
\* TypeError before any callback is attached.
Save ==
    /\ CanCall
    /\ Report("save", "TypeError", <<>>, <<>>, <<>>)
    /\ Fired(<<>>)
    /\ UNCHANGED collVars

\* The local array changedAttributes of Model.prototype.set, which the
\* 'change' event carries as its changed field: it is created empty and
\* nothing is ever pushed on it.
ChangedPayload == <<>>

\* The events Model.prototype.set triggers on the Record, whose handlers
\* are the onChange and onDirty that Model.prototype._initialize registers
ModelSetEvents(silent) == IF silent THEN <<"dirty">> ELSE <<"change", "dirty">>

\* collection.get(i).set(e): Record.set on a member Record. fired and log
\* hold the Record's events, and changedItems the changed field of the
\* 'change' event.
RecordSet(i, e) ==
    /\ CanCall
    /\ i \in 1..Len(items)
    /\ items' = [items EXCEPT ![i] = ModelSetMapping(items[i], e)]
    /\ Report("Record.set", "model", <<>>, <<>>, ChangedPayload)
    /\ Fired(ModelSetEvents(FALSE))
    /\ UNCHANGED <<length, _dirty, _isDirty, _isSorted, _hasBeenRendered, firstSet,
                   sortComparator, _events, uidNext>>

\* collection.get(i).set(e, false, true): the silent form
RecordSetSilent(i, e) ==
    /\ CanCall
    /\ i \in 1..Len(items)
    /\ items' = [items EXCEPT ![i] = ModelSetMapping(items[i], e)]
    /\ Report("Record.set(silent)", "model", <<>>, <<>>, <<>>)
    /\ Fired(ModelSetEvents(TRUE))
    /\ UNCHANGED <<length, _dirty, _isDirty, _isSorted, _hasBeenRendered, firstSet,
                   sortComparator, _events, uidNext>>

\* collection.get(i).set({debug: true}, true): the internal form. The events
\* are triggered on the copy, whose handler lists are copies too.
RecordSetInternal(i) ==
    /\ CanCall
    /\ i \in 1..Len(items)
    /\ items' = [items EXCEPT ![i] = ModelSetInternal(items[i]).record]
    /\ Report("Record.set(internal)", "copy", <<>>, <<>>, ChangedPayload)
    /\ Fired(ModelSetEvents(FALSE))
    /\ UNCHANGED <<length, _dirty, _isDirty, _isSorted, _hasBeenRendered, firstSet,
                   sortComparator, _events, uidNext>>

\* collection.get(i).set("name", value): the key/value form of Record.set
RecordSetKeyValue(i, value) ==
    /\ CanCall
    /\ i \in 1..Len(items)
    /\ items' = [items EXCEPT ![i] = ModelSetKeyValue(items[i], "name", value)]
    /\ Report("Record.set", "model", <<>>, <<>>, ChangedPayload)
    /\ Fired(ModelSetEvents(FALSE))
    /\ UNCHANGED <<length, _dirty, _isDirty, _isSorted, _hasBeenRendered, firstSet,
                   sortComparator, _events, uidNext>>

\* r.set(r.get(Object.keys(r.attributes))) with r = collection.get(i)
RecordRoundTrip(i) ==
    /\ CanCall
    /\ i \in 1..Len(items)
    /\ items' = [items EXCEPT ![i] = ModelSetMapping(items[i], ModelGet(items[i]))]
    /\ Report("Record.set", "model", <<>>, <<>>, ChangedPayload)
    /\ Fired(ModelSetEvents(FALSE))
    /\ UNCHANGED <<length, _dirty, _isDirty, _isSorted, _hasBeenRendered, firstSet,
                   sortComparator, _events, uidNext>>

\* on(name, handler): $.Callbacks('unique') keeps one registration
On(name, h) ==
    /\ CanCall
    /\ _events' = IF Registered(name, h) THEN _events
                  ELSE [_events EXCEPT ![name] = Append(@, h)]
    /\ Report("on", "undefined", <<>>, <<>>, <<>>)
    /\ Fired(<<>>)
    /\ UNCHANGED <<items, length, _dirty, _isDirty, _isSorted, _hasBeenRendered,
                   firstSet, sortComparator, uidNext>>

\* off(name, handler)
Off(name, h) ==
    /\ CanCall
    /\ _events' = [_events EXCEPT ![name] = SelectSeq(@, LAMBDA x : x # h)]
    /\ Report("off", "undefined", <<>>, <<>>, <<>>)
    /\ Fired(<<>>)
    /\ UNCHANGED <<items, length, _dirty, _isDirty, _isSorted, _hasBeenRendered,
                   firstSet, sortComparator, uidNext>>

\* The handlers a caller registers or removes
Handlers ==
    {<<"clear", "onClear">>, <<"clear", "userClear">>, <<"clear", "userReclear">>,
     <<"error", "onError">>, <<"error", "userError">>}

\* Collection.prototype.isDirty
isDirty == _isDirty

Snapshots == SeqsUpTo(Elements, MaxSnap)

Next ==
    \/ \E snapshot \in Snapshots, silent \in BOOLEAN : Set(snapshot, silent)
    \/ SetNotArray
    \/ \E elems \in SeqsUpTo(Elements, MaxAdd), noSort, silent \in BOOLEAN :
          Add(elems, noSort, silent)
    \/ \E n \in 0..(MaxKey + 1), silent \in BOOLEAN : RemoveNumber(n, silent)
    \/ \E i \in 1..MaxItems, silent \in BOOLEAN : RemoveRecord(i, silent)
    \/ RemoveUnrecognized
    \/ \E silent \in BOOLEAN, fn \in {"none", "default", "asc"} : Sort(silent, fn)
    \/ \E fn \in {"default", "asc"} : SetComparator(fn)
    \/ SetComparatorNotFunction
    \/ \E deep \in BOOLEAN : Clean(deep)
    \/ Clear
    \/ \E force \in BOOLEAN : Render(force)
    \/ \E i \in 1..MaxItems, e \in Patches : RecordSet(i, e)
    \/ \E i \in 1..MaxItems, e \in Patches : RecordSetSilent(i, e)
    \/ \E i \in 1..MaxItems : RecordSetInternal(i)
    \/ \E i \in 1..MaxItems, value \in 1..MaxName : RecordSetKeyValue(i, value)
    \/ \E i \in 1..MaxItems : RecordRoundTrip(i)
    \/ \E h \in Handlers : On(h[1], h[2])
    \/ \E h \in Handlers : Off(h[1], h[2])
    \/ Fetch
    \/ Save

Spec == Init /\ [][Next]_vars

\* ---- vocabulary of the claims -------------------------------------------
KeySet(s) == {s[i].id : i \in 1..Len(s)}

DistinctKeys(s) == \A i, j \in 1..Len(s) : i # j => s[i].id # s[j].id

NonEmptyKeys(snapshot) == \A i \in 1..Len(snapshot) : ~NeedsUid(snapshot[i])

\* The attributes of the Records of s, in order
Attrs(s) == [i \in 1..Len(s) |-> ModelToJSON(s[i])]

\* collection.toJSON().items
ToJSONItems == Attrs(items)

\* The Records a list of entries refers to, and whether all its entries are
\* Records rather than arrays
Referred(list) == UNION {Range(list[i].elems) : i \in 1..Len(list)}

AllRecords(list) == \A i \in 1..Len(list) : ~list[i].isArray

\* The snapshot element a Record of key k is matched with
MatchOf(snapshot, k) == snapshot[IndexOf(Keys(snapshot), k)]

\* Whether element e holds an attribute value that differs from the Record's
Differs(r, e) ==
    \/ e.id # Absent /\ ~isEqual(r.id, e.id)
    \/ e.name # Absent /\ ~isEqual(r.name, e.name)

\* ---- C1 -----------------------------------------------------------------
\* C1: no two Records in items share the same key, after any sequence of
\* add and set calls.
C1_AtMostOneRecordPerKey == DistinctKeys(items)

\* ---- C2 -----------------------------------------------------------------
\* C2: set(snapshot) on a collection with distinct keys, for a snapshot with
\* distinct non-empty keys: the removed list is exactly the Records whose
\* key is absent from the snapshot, the added list is exactly one new Record
\* per snapshot key absent from the collection, and the final key set is the
\* snapshot's key set.
C2_Classification(snapshot, out) ==
    /\ Referred(out.removed) =
          {ModelToJSON(items[i]) : i \in {j \in 1..Len(items) : items[j].id \notin KeySet(snapshot)}}
    /\ Len(out.removed) = Cardinality(KeySet(items) \ KeySet(snapshot))
    /\ {a.id : a \in Referred(out.added)} = KeySet(snapshot) \ KeySet(items)
    /\ Len(out.added) = Cardinality(KeySet(snapshot) \ KeySet(items))
    /\ KeySet(out.c.items) = KeySet(snapshot)

\* Stated of every state that allows a call and every outcome the call
\* set(snapshot) has there.
C2_SetClassifies ==
    (CanCall /\ DistinctKeys(items)) =>
        \A snapshot \in {x \in Snapshots : DistinctKeys(x) /\ NonEmptyKeys(x)} :
            \A out \in CollSet(Here, snapshot, sortComparator, FALSE) :
                /\ AllRecords(out.removed)
                /\ AllRecords(out.added)
                /\ C2_Classification(snapshot, out)

\* The same with every entry of the removed list taken for the Record it
\* holds.
C2_ClassifiesUpToWrapping ==
    (CanCall /\ DistinctKeys(items)) =>
        \A snapshot \in {x \in Snapshots : DistinctKeys(x) /\ NonEmptyKeys(x)} :
            \A out \in CollSet(Here, snapshot, sortComparator, FALSE) :
                /\ AllRecords(out.added)
                /\ C2_Classification(snapshot, out)

\* ---- C3 -----------------------------------------------------------------
\* C3: the changed list of set holds exactly the matched Records for which
\* some attribute of the matching snapshot element differs from the Record's
\* value before the call (stated where keys are distinct, so that the
\* matching element is the only one of that key), in every state that allows
\* a call and for every outcome the call has there.
C3_ChangedExactlyTheDiffering ==
    (CanCall /\ DistinctKeys(items)) =>
        \A snapshot \in {x \in Snapshots : DistinctKeys(x)} :
            \A out \in CollSet(Here, snapshot, sortComparator, FALSE) :
                /\ AllRecords(out.changed)
                /\ {a.id : a \in Referred(out.changed)} =
                      {items[i].id : i \in {j \in 1..Len(items) :
                           /\ Matched(items[j], snapshot)
                           /\ Differs(items[j], MatchOf(snapshot, items[j].id))}}

\* ---- C4 -----------------------------------------------------------------
\* C4: set(collection.toJSON().items) produces empty added, removed and
\* changed lists, fires no 'change' and no 'dirty' event, and leaves the
\* membership, the dirty flag and the render-cache validity unchanged.
C4_SetOfOwnContentsIsNoOp ==
    [][\A silent \in BOOLEAN :
          Set(ToJSONItems, silent)
          => /\ addedItems' = <<>> /\ removedItems' = <<>> /\ changedItems' = <<>>
             /\ \A i \in 1..Len(fired') : fired'[i] \notin {"change", "dirty"}
             /\ Attrs(items') \in Arrangements(Attrs(items))
             /\ _dirty' = _dirty
             /\ isDirty' = isDirty
             /\ _hasBeenRendered' = _hasBeenRendered]_vars

\* ---- C5 -----------------------------------------------------------------
\* The arrays of attributes set(snapshot) can leave in items
SetItems(snapshot) ==
    {Attrs(out.c.items) : out \in CollSet(Here, snapshot, sortComparator, FALSE)}

\* After a successful set, items is ordered consistently with the active
\* comparator.
OrderedAfterSet == (op = "set" /\ ret = "this") => Ordered(items, sortComparator)

\* set leaves one and the same order for every permutation of the snapshots
\* in S.
SameForEveryPermutation(S) ==
    \A snapshot \in S : \A p \in Arrangements(snapshot) :
        /\ SetItems(p) = SetItems(snapshot)
        /\ Cardinality(SetItems(snapshot)) = 1

\* C5 as claimed: after every successful set, items is ordered consistently
\* with the active comparator, and the resulting order is the same for every
\* permutation of the supplied snapshot.
C5_OrderedWhateverTheInputOrder ==
    /\ OrderedAfterSet
    /\ CanCall => SameForEveryPermutation(Snapshots)

\* C5 as amended: after every successful set, items is ordered consistently
\* with the active comparator; when the Records of the collection have
\* distinct keys, the resulting order is the same for every permutation of a
\* snapshot whose elements have distinct non-empty keys.
C5_OrderedAndKeyedInputOrderFree ==
    /\ OrderedAfterSet
    /\ (CanCall /\ DistinctKeys(items)) =>
          SameForEveryPermutation({x \in Snapshots : DistinctKeys(x) /\ NonEmptyKeys(x)})

\* A set has left two Records of different keys under the caller's own
\* comparator, and a further call can follow.
C5_Witness ==
    /\ op = "set" /\ ret = "this"
    /\ sortComparator = "asc"
    /\ Len(items) = 2 /\ items[1].id < items[2].id
    /\ Len(addedItems) > 0
    /\ CanCall

\* ---- C6 -----------------------------------------------------------------
\* C6: after a successful add, remove or set call that changes the
\* membership or a member's attributes, isDirty() returns true.
C6_DirtyAfterMutation ==
    [][(/\ calls' = calls + 1
        /\ op' \in {"add", "remove", "set"}
        /\ ret' = "this"
        /\ Attrs(items') # Attrs(items))
       => isDirty' = JTrue]_vars

\* ---- C7 -----------------------------------------------------------------
\* C7: right after clean(true), isDirty() is false and every Record has its
\* dirty flag false and empty changedAttributes; clean() clears only the
\* collection's dirty flag and leaves every Record as it was.
C7_CleanClears ==
    [][/\ (calls' = calls + 1 /\ op' = "clean(true)")
            => /\ isDirty' = JFalse
               /\ \A i \in 1..Len(items') :
                     ~items'[i]._dirty /\ items'[i].changedAttributes = NoChanges
       /\ (calls' = calls + 1 /\ op' = "clean")
            => /\ isDirty' = JFalse
               /\ items' = items]_vars

\* What clean does to the fields themselves: _dirty is false afterwards,
\* clean(true) leaves every Record clean and clean() leaves them untouched.
C7_FieldsAreCleaned ==
    /\ op \in {"clean", "clean(true)"} => _dirty = JFalse
    /\ op = "clean(true)" =>
          \A i \in 1..Len(items) :
              ~items[i]._dirty /\ items[i].changedAttributes = NoChanges

\* ---- C8 -----------------------------------------------------------------
\* C8: set with an argument that is not an array emits exactly one 'error'
\* event, returns a falsy value, fires no 'sort', 'dirty' or 'change' event
\* and leaves items, length, the dirty flag, the sorted flag, the render
\* cache and the first-snapshot flag unchanged.
C8_SetRejectsNonArray ==
    [][(calls' = calls + 1 /\ op' = "set" /\ ret' # "this")
       => /\ fired' = <<"error">>
          /\ ret' = "false"
          /\ UNCHANGED <<items, length, _dirty, _isDirty, _isSorted,
                         _hasBeenRendered, firstSet>>]_vars

\* ---- C9 -----------------------------------------------------------------
\* C9: remove with a well-formed identifier whose key matches no Record in
\* items fails with an 'error' event and mutates nothing.
C9_RemoveUnmatchedFails ==
    [][\A n \in 0..(MaxKey + 1), silent \in BOOLEAN :
          (n \notin KeySet(items) /\ RemoveNumber(n, silent))
          => /\ \E i \in 1..Len(fired') : fired'[i] = "error"
             /\ UNCHANGED <<items, length, _dirty>>]_vars

\* ---- C10 ----------------------------------------------------------------
\* C10: after clear() returns, length is 0, items is empty and the
\* collection is dirty.
C10_ClearLeavesEmptyAndDirty ==
    op = "clear" => (length = 0 /\ items = <<>> /\ _dirty = JTrue)

\* ---- C11 ----------------------------------------------------------------
\* The Records of s with their attributes, whatever their order
Membership(s) == [a \in Range(Attrs(s)) |-> Cardinality({i \in 1..Len(s) : Attrs(s)[i] = a})]

\* C11: the render cache is invalidated whenever the membership or a
\* member's attributes change: no call other than render that changes them
\* (add, remove, set, clear, Record.set on a member) leaves the cache marked
\* valid.
C11_CacheInvalidatedByChanges ==
    [][(/\ calls' = calls + 1
        /\ op' # "render"
        /\ Membership(items') # Membership(items))
       => _hasBeenRendered' # JTrue]_vars

\* ---- C12 ----------------------------------------------------------------
\* How many times event name occurs in a sequence of triggered events
Count(events, name) == Cardinality({i \in 1..Len(events) : events[i] = name})

\* C12: in every state that allows a call, every outcome of set(snapshot,
\* {silent: silent}) has exactly one 'change' event when silent is not set
\* and one of the added, removed and changed lists is non-empty, triggered
\* last, after the sort and with length updated; it has no 'change' event
\* when silent is set or the three lists are empty.
C12_OneChangeEventPerSet ==
    CanCall =>
        \A snapshot \in Snapshots, silent \in BOOLEAN :
            \A out \in CollSet(Here, snapshot, sortComparator, silent) :
                LET any == Len(out.added) > 0 \/ Len(out.removed) > 0 \/ Len(out.changed) > 0
                    f == out.c.fired
                IN  /\ Count(f, "change") = IF ~silent /\ any THEN 1 ELSE 0
                    /\ (~silent /\ any) =>
                          /\ f[Len(f)] = "change"
                          /\ \E i \in 1..(Len(f) - 1) : f[i] = "sort"
                          /\ out.c.length = Len(out.c.items)
                          /\ Ordered(out.c.items, sortComparator)

\* A set that removed one Record and added another has fired its one
\* 'change' event.
C12_Witness ==
    /\ op = "set" /\ ret = "this"
    /\ Len(removedItems) > 0 /\ Len(addedItems) > 0
    /\ Count(fired, "change") = 1

\* ---- C13 ----------------------------------------------------------------
\* C13: r.set(r.get(Object.keys(r.attributes))) leaves the attributes of r
\* unchanged in value, makes r dirty and does not advance r.modified, for
\* any Record r in any reachable state.
C13_RoundTripKeepsAttributesAndTime ==
    [][\A i \in 1..MaxItems :
          RecordRoundTrip(i)
          => /\ ModelToJSON(items'[i]) = ModelToJSON(items[i])
             /\ items'[i]._dirty
             /\ items'[i].modified = items[i].modified]_vars

\* What does hold of the round trip: the attributes keep their values and
\* the Record is dirty.
C13_RoundTripKeepsAttributes ==
    [][\A i \in 1..MaxItems :
          RecordRoundTrip(i)
          => /\ ModelToJSON(items'[i]) = ModelToJSON(items[i])
             /\ items'[i]._dirty]_vars

\* ---- C14 ----------------------------------------------------------------
\* C14: modified advances during a Record.set call only if a value supplied
\* in the call differs from the Record's value before the call, in the
\* key/value form and in the mapping form, whatever was changed earlier.
C14_ModifiedAdvancesOnlyOnDifference ==
    [][/\ \A i \in 1..MaxItems, e \in Patches :
            (RecordSet(i, e) /\ items'[i].modified # items[i].modified)
            => Differs(items[i], e)
       /\ \A i \in 1..MaxItems, value \in 1..MaxName :
            (RecordSetKeyValue(i, value) /\ items'[i].modified # items[i].modified)
            => ~isEqual(items[i].name, value)
       /\ \A i \in 1..MaxItems :
            RecordRoundTrip(i) => items'[i].modified = items[i].modified]_vars

\* ---- C15 ----------------------------------------------------------------
\* The entries of a mapping whose value differs from the Record's
ChangeSet(r, e) ==
    [id |-> IF e.id # Absent /\ ~isEqual(r.id, e.id) THEN e.id ELSE Absent,
     name |-> IF e.name # Absent /\ ~isEqual(r.name, e.name) THEN e.name ELSE Absent,
     undefined |-> Absent,
     debug |-> Absent]

\* C15: after any Record.set call changedAttributes holds exactly the
\* entries of that call whose value differed from the prior value, whatever
\* earlier calls set; it is empty after construction and after clean().
C15_ChangedAttributesIsLastChangeSet ==
    [][/\ \A i \in 1..MaxItems, e \in Patches :
            RecordSet(i, e) => items'[i].changedAttributes = ChangeSet(items[i], e)
       /\ \A i \in 1..MaxItems, value \in 1..MaxName :
            RecordSetKeyValue(i, value)
            => items'[i].changedAttributes =
                  ChangeSet(items[i], [id |-> Absent, name |-> value])
       /\ \A i \in 1..MaxItems :
            RecordRoundTrip(i)
            => items'[i].changedAttributes = ChangeSet(items[i], ModelGet(items[i]))
       /\ (calls' = calls + 1 /\ op' = "add")
            => \A k \in 1..Len(items') :
                  (Len(addedItems') > 0 /\ items'[k].modified = Now /\ ~items'[k]._dirty)
                  => items'[k].changedAttributes = NoChanges
       /\ (calls' = calls + 1 /\ op' = "clean(true)")
            => \A k \in 1..Len(items') : items'[k].changedAttributes = NoChanges]_vars

\* ---- C16 ----------------------------------------------------------------
\* The elements of a snapshot whose key the Record constructor treats as
\* missing
Keyless(snapshot) == {k \in 1..Len(snapshot) : NeedsUid(snapshot[k])}

\* C16: in every state that allows a call, set(snapshot) matches no Record
\* with an element whose key is absent or empty, and every such element is
\* added.
C16_KeylessElementsAreAdded ==
    CanCall =>
        \A snapshot \in Snapshots :
            /\ \A k \in Keyless(snapshot), i \in 1..Len(items) :
                  ~isEqual(items[i].id, snapshot[k].id)
            /\ \A out \in CollSet(Here, snapshot, sortComparator, FALSE) :
                  Len(out.added) >= Cardinality(Keyless(snapshot))

\* ---- C17 ----------------------------------------------------------------
\* The handlers of the 'clear' and 'error' events an operation invoked, in
\* order
Invoked == SelectSeq(log, LAMBDA x : \E h \in Handlers : x = h[2])

\* Whether the last operation triggered 'error' and nothing else
ErrorTriggered == fired = <<"error">>

\* No handler is registered twice for an event
RegisteredOnce ==
    \A name \in {"clear", "error"} :
        \A i, j \in 1..Len(_events[name]) : i # j => _events[name][i] # _events[name][j]

\* C17: registration is a set with ordered delivery: no handler is
\* registered twice, on and off raise no error, and trigger invokes every
\* handler currently registered for the event exactly once, in registration
\* order (observed on the 'error' event the failing operations trigger).
C17_EveryRegisteredHandlerInvokedOnce ==
    /\ RegisteredOnce
    /\ op \in {"on", "off"} => ret = "undefined"
    /\ ErrorTriggered => Invoked = _events.error

\* What does hold: the handlers invoked are the registered ones, each once
\* and in registration order, up to the first that raises.
C17_InvokedUpToTheFirstThatRaises ==
    /\ RegisteredOnce
    /\ op \in {"on", "off"} => ret = "undefined"
    /\ ErrorTriggered => Invoked = FireError(_events.error)
    /\ (ErrorTriggered /\ ~Registered("error", "onError")) => Invoked = _events.error

\* ---- C18 ----------------------------------------------------------------
\* The handlers of 'clear' that clear() invoked, in order
ClearInvoked == SelectSeq(log, LAMBDA x : x \in {"onClear", "userClear", "userReclear"})

\* What a handler's call of add leaves in the log when it runs to completion
NestedAdd == <<"sort", "onSort", "dirty", "onDirty", "change", "onChange">>

\* A trigger of another event from inside a 'clear' handler is depth-first:
\* the events userClear's add triggers and their handlers follow userClear
\* at once, before the next handler of 'clear'.
OtherEventsDepthFirst ==
    \A i \in 1..Len(log) :
        log[i] = "userClear" =>
            /\ i + Len(NestedAdd) <= Len(log)
            /\ SubSeq(log, i + 1, i + Len(NestedAdd)) = NestedAdd

\* The order depth-first firing of the same event would give: the handlers
\* up to userReclear, then all of them for the nested trigger, then the
\* rest.
DepthFirstOrder(handlers) ==
    LET k == IndexOf(handlers, "userReclear")
    IN  IF k = 0 THEN handlers
        ELSE SubSeq(handlers, 1, k) \o handlers \o SubSeq(handlers, k + 1, Len(handlers))

\* The order a queued firing gives: all handlers, then all of them again
QueuedOrder(handlers) ==
    IF IndexOf(handlers, "userReclear") = 0 THEN handlers ELSE handlers \o handlers

\* C18 as claimed: a trigger from inside a handler, of the same event or of
\* another one, runs all its handlers before the next handler of the outer
\* trigger runs, and everything is over when the outer trigger returns.
C18_ReentrantTriggerDepthFirst ==
    op = "clear" =>
        /\ OtherEventsDepthFirst
        /\ ClearInvoked = DepthFirstOrder(_events.clear)
        /\ items = <<>>

\* C18 as amended: a trigger of another event from inside a handler runs
\* all its handlers before the next handler of the outer trigger; a trigger
\* of the same event is queued, and its handlers run after the remaining
\* handlers of the outer trigger; everything is over when the outer trigger
\* returns.
C18_ReentrantSameEventQueued ==
    op = "clear" =>
        /\ OtherEventsDepthFirst
        /\ ClearInvoked = QueuedOrder(_events.clear)
        /\ items = <<>>

\* clear() ran with a handler that triggers 'clear' again registered before
\* a handler that adds to the collection.
C18_Witness ==
    /\ op = "clear"
    /\ _events.clear = <<"onClear", "userReclear", "userClear">>
    /\ Count(log, "clear") = 2

\* ---- C19 ----------------------------------------------------------------
\* C19: setComparator with an argument that is not a function emits an
\* 'error' event, returns a falsy sentinel and leaves the active comparator
\* and the order of the items unchanged.
C19_SetComparatorRejectsNonFunction ==
    [][SetComparatorNotFunction
       => /\ fired' = <<"error">>
          /\ ret' \in {"false", "null", "undefined"}
          /\ sortComparator' = sortComparator
          /\ items' = items]_vars

\* What does hold: the 'error' event is emitted and the comparator and the
\* items stay.
C19_ComparatorAndOrderKept ==
    [][SetComparatorNotFunction
       => /\ fired' = <<"error">>
          /\ sortComparator' = sortComparator
          /\ items' = items]_vars

\* ---- C20 ----------------------------------------------------------------
\* C20: every fetch or save request returns without raising (and its
\* continuation later runs once, emitting one 'load' or 'save' event).
C20_FetchAndSaveReturn ==
    op \in {"fetch", "save"} => ret # "TypeError"

\* ---- C21 ----------------------------------------------------------------
\* C21: every set that succeeds runs one sort pass: exactly one 'sort' event
\* fires, with its handler invoked once, whatever was removed, changed or
\* added and whatever options.silent is; the remove and add steps inside set
\* fire none.
C21_OneSortPassPerSet ==
    (op = "set" /\ ret = "this") =>
        /\ Count(fired, "sort") = 1
        /\ Count(log, "onSort") = 1

\* A silent set that removed a Record, changed one and added one
C21_Witness ==
    /\ op = "set" /\ ret = "this"
    /\ Len(removedItems) > 0 /\ Len(changedItems) > 0 /\ Len(addedItems) > 0
    /\ ~(\E i \in 1..Len(fired) : fired[i] = "change")
    /\ Count(fired, "sort") = 1
\* ---- C22 ----------------------------------------------------------------
\* C22: Record.set applies the patch: after r.set(patch) with a mapping,
\* every attribute named in patch equals the value patch gives it, also when
\* that value is an array shorter than the one it replaces, and the
\* attributes patch does not name are unchanged.
C22_SetAppliesThePatch ==
    CanCall =>
        \A i \in 1..Len(items), e \in Patches :
            LET r == ModelSetMapping(items[i], e)
            IN  /\ isEqual(ModelGet(r).name, e.name)
                /\ ModelGet(r).id = items[i].id

\* The second half of C22: after r.set(patch, true) the Record's own
\* properties named in patch hold the values of patch.
C22_InternalPatchIsApplied ==
    CanCall => \A i \in 1..Len(items) : ModelSetInternal(items[i]).record.debug = TRUE

\* What does hold: the patch is applied whenever the old and the new value
\* are not both arrays.
C22_AppliedUnlessArrayOntoArray ==
    CanCall =>
        \A i \in 1..Len(items), e \in Patches :
            LET r == ModelSetMapping(items[i], e)
            IN  /\ (~(IsArray(items[i].name) /\ IsArray(e.name))
                        => isEqual(ModelGet(r).name, e.name))
                /\ ModelGet(r).id = items[i].id
\* ---- C23 ----------------------------------------------------------------
\* C23: unless silent, every Record.set emits exactly one 'change' event on
\* the Record, whose changed field lists the attributes the call changed and
\* is empty only when the call changed nothing, and then a 'dirty' event;
\* a silent Record.set emits no 'change' and still emits 'dirty'.
C23_ChangeEventDescribesTheCall ==
    [][/\ \A i \in 1..MaxItems, e \in Patches :
            RecordSet(i, e)
            => /\ fired' = <<"change", "dirty">>
               /\ (changedItems' = <<>>) <=> (ModelGet(items'[i]) = ModelGet(items[i]))
       /\ \A i \in 1..MaxItems, e \in Patches :
            RecordSetSilent(i, e) => fired' = <<"dirty">>]_vars

\* What does hold: the events emitted, with the handlers they invoke
C23_EventsOfRecordSet ==
    [][/\ \A i \in 1..MaxItems, e \in Patches :
            RecordSet(i, e)
            => /\ fired' = <<"change", "dirty">>
               /\ log' = <<"change", "onChange", "dirty", "onDirty">>
       /\ \A i \in 1..MaxItems, e \in Patches :
            RecordSetSilent(i, e)
            => /\ fired' = <<"dirty">>
               /\ log' = <<"dirty", "onDirty">>]_vars
\* ---- C24 ----------------------------------------------------------------
\* Collection.prototype.isSorted
isSorted == _isSorted

\* C24: the sorted flag is a sound cache: whenever isSorted() is true after
\* a public operation, items is ordered consistently with the active
\* comparator (so the flag is false after an add with noSort, a
\* setComparator with another comparator, a sort(fn) with a one-off
\* comparator, or a Record.set of a member's key that left items out of
\* order).
C24_SortedFlagIsSound ==
    isSorted = JTrue => Ordered(items, sortComparator)
\* ---- C25 ----------------------------------------------------------------
\* C25: set consumes the matched elements from a working copy: when set
\* returns, the array the caller passed has the same length and the same
\* elements in the same order as before the call.
C25_CallersArrayUntouched ==
    CanCall =>
        \A snapshot \in Snapshots, silent \in BOOLEAN :
            \A out \in CollSet(Here, snapshot, sortComparator, silent) :
                out.newItems = snapshot

\* What does hold: the caller's array keeps, in order, the elements that
\* were not consumed, one element leaving it for every Record that stays.
C25_CallersArrayLosesTheConsumed ==
    CanCall =>
        \A snapshot \in Snapshots, silent \in BOOLEAN :
            \A out \in CollSet(Here, snapshot, sortComparator, silent) :
                LET staying == Cardinality({i \in 1..Len(items) : Matched(items[i], snapshot)})
                IN  /\ Len(out.newItems) = IF staying > Len(snapshot) THEN 0
                                           ELSE Len(snapshot) - staying
                    /\ Len(out.added) = Len(out.newItems)
\* ---- C26 ----------------------------------------------------------------
\* C26: during one set the collection's 'dirty' event fires at most once,
\* and no handler runs between the remove, change and add phases: every
\* event of the call ('sort', 'dirty', 'change') fires after the three
\* phases, the sort pass being the first to fire one, so that its handlers
\* see all removals, changes and additions applied and length equal to the
\* number of items.
C26_EventsAfterReconciliation ==
    (op = "set" /\ ret = "this") =>
        /\ Count(fired, "dirty") <= 1
        /\ Head(fired) = "sort"
        /\ length = Len(items)

\* What does hold: 'dirty' fires once for every Record the remove phase
\* takes out and once for the add phase, all before the sort pass, and set
\* itself fires 'dirty' and 'change' after it.
C26_DirtyFiresInEveryStep ==
    (op = "set" /\ ret = "this") =>
        LET steps == Len(removedItems) + (IF Len(addedItems) > 0 THEN 1 ELSE 0)
            any == Len(addedItems) + Len(removedItems) + Len(changedItems) > 0
            silent == Count(fired, "change") = 0
        IN  /\ Len(fired) > steps
            /\ \A k \in 1..steps : fired[k] = "dirty"
            /\ fired[steps + 1] = "sort"
            /\ SubSeq(fired, steps + 2, Len(fired))
                  = (IF ~any THEN <<>>
                     ELSE IF silent THEN <<"dirty">> ELSE <<"dirty", "change">>)
            /\ length = Len(items)
====
